---- MODULE Spec2Model ----
(***************************************************************************)
(* A model of the code-object nodes of nncg (nncg/nodes/expressions.py)    *)
(* and of the search actions (nncg/traverse/actions/searchnode.py).        *)
(*                                                                         *)
(* Text is a sequence of atoms.  An atom is one character for digits and   *)
(* punctuation, and one whole word for the fixed words of the templates    *)
(* ("static", "alignas(") and for the type and base name of a variable.    *)
(* Python's None is the empty tuple, a present value x is <<x>>.           *)
(***************************************************************************)
EXTENDS Integers, Sequences, FiniteSets, TLC

VARIABLES
    pc,              \* which object is under test: "var", "idx", "expr", "walk", "done"
    var,             \* the Variable instance
    iv,              \* the IndexedVariable instance
    expr,            \* the Expression instance
    op,              \* name of the last method called
    ret,             \* what the last method returned or raised
    argLen,          \* length of the list passed to the last call (0: no list)
    defCalled,       \* whether get_def has been called on var
    lastIndices,     \* the list passed to the most recent set_indices call
    graph,           \* node -> ordered outgoing edges of the graph being searched
    action,          \* the SearchNode action: kind, search_for, cur_path_stack, result
    frames,          \* the call stack of TreeNode.traverse: <<node, next edge>>
    hooks            \* log of the hook invocations: <<"pre"|"post", node, edge position>>

vars == <<pc, var, iv, expr, op, ret, argLen, defCalled, lastIndices, graph, action, frames, hooks>>

----------------------------------------------------------------------------
(* Bounds of the model.                                                    *)

MaxDims == 2
MaxIdx == 2
MaxOut == 2
MaxSnippet == 3

----------------------------------------------------------------------------
(* Values and text.                                                        *)

None == <<>>
Some(x) == <<x>>

Text(t) == [kind |-> "text", text |-> t]
NoValue == [kind |-> "none", text |-> <<>>]
Raise(e) == [kind |-> "error", text |-> <<e>>]

Digit(n) ==
    CASE n = 0 -> "0" [] n = 1 -> "1" [] n = 2 -> "2" [] n = 3 -> "3" [] n = 4 -> "4"
      [] n = 5 -> "5" [] n = 6 -> "6" [] n = 7 -> "7" [] n = 8 -> "8" [] n = 9 -> "9"

RECURSIVE IntStr(_)
\* str(n) of a natural number: its decimal digits.
IntStr(n) == IF n < 10 THEN <<Digit(n)>> ELSE IntStr(n \div 10) \o <<Digit(n % 10)>>

\* np.format_float_scientific(f, precision=15) of a whole number 0..9: "d.e+00".
FormatSci(f) == <<Digit(f), ".", "e", "+", "0", "0">>

RECURSIVE Flatten(_)
\* ndarray.flatten() of a two-dimensional array given as a sequence of rows.
Flatten(rows) == IF rows = <<>> THEN <<>> ELSE Head(rows) \o Flatten(Tail(rows))

RECURSIVE Join(_, _)
\* sep.join(parts)
Join(sep, parts) ==
    IF parts = <<>> THEN <<>>
    ELSE IF Len(parts) = 1 THEN parts[1]
    ELSE parts[1] \o sep \o Join(sep, Tail(parts))

RECURSIVE Concat(_)
\* ''.join(parts)
Concat(parts) == IF parts = <<>> THEN <<>> ELSE Head(parts) \o Concat(Tail(parts))

Min(a, b) == IF a < b THEN a ELSE b

----------------------------------------------------------------------------
(* Variable (expressions.py).                                              *)

Unset == <<"<unset>">>

\* nncg.tools._len: the number of dimensions, 0 for None.
_len(dim) == IF dim = None THEN 0 ELSE Len(dim[1])

set_alignment(bytes) ==
    IF bytes > 0 THEN <<"alignas(">> \o IntStr(8 * bytes) \o <<")">> ELSE <<>>

Variable__init__(type, name, dim, alignment, index, init_data) ==
    [decl_written |-> FALSE,
     index |-> index,
     type |-> type,
     name |-> name,
     dim |-> dim,
     alignment |-> set_alignment(alignment),
     init_data |-> init_data,
     pads |-> [k \in 1.._len(dim) |-> <<0, 0>>],
     temporal_value |-> None,
     dim_str |-> Unset,
     data_str |-> Unset]

NameIndex(v) == <<v.name, "_">> \o IntStr(v.index)

\* Variant: the override is tested for truth instead of for None.
Variable__str__truthy(v) ==
    IF v.temporal_value # None /\ v.temporal_value[1] # 0
    THEN IntStr(v.temporal_value[1]) ELSE NameIndex(v)

Variable__str__(v) ==
    IF v.temporal_value # None THEN IntStr(v.temporal_value[1]) ELSE NameIndex(v)

\* Variant: the list is stored without the check of its length.
change_padding_unchecked(v, pads) == [v |-> [v EXCEPT !.pads = pads], r |-> NoValue]

\* [v |-> the variable after the call, r |-> the outcome of the call]
change_padding(v, pads) ==
    IF Len(pads) = _len(v.dim)
    THEN [v |-> [v EXCEPT !.pads = pads], r |-> NoValue]
    ELSE [v |-> v, r |-> Raise("AssertionError")]

get_cast(v) == <<"(", v.type, "*", ")">>

\* np.atleast_1d(dim): None becomes the one-element array [None].
AtLeast1d(dim) == IF dim = None THEN <<None>> ELSE dim[1]

\* Variant: the trailing padding is left out of the size.
_get_dim_str_leading_only(v) ==
    LET d == AtLeast1d(v.dim)
        n == Min(Len(d), Len(v.pads))
    IN Concat([k \in 1..n |-> <<"[">> \o IntStr(d[k] + v.pads[k][1]) \o <<"]">>])

_get_dim_str(v) ==
    LET d == AtLeast1d(v.dim)
        n == Min(Len(d), Len(v.pads))   \* zip stops at the shorter list
    IN Concat([k \in 1..n |-> <<"[">> \o IntStr(d[k] + v.pads[k][1] + v.pads[k][2]) \o <<"]">>])

DefText(v) ==
    <<"static", " ", v.type, " ">> \o NameIndex(v) \o <<" ">> \o v.alignment \o <<" ">>
      \o v.dim_str \o <<" ", "=", " ", "{", " ">> \o v.data_str \o <<" ", "}", ";", "\n">>

get_def(v, write_init_data) ==
    IF v.decl_written THEN [v |-> v, r |-> NoValue]
    ELSE LET data == IF v.init_data # None /\ write_init_data
                     THEN LET flat == Flatten(v.init_data[1])
                          IN Join(<<",">>, [k \in 1..Len(flat) |-> FormatSci(flat[k])])
                     ELSE <<"0">>
             w == [v EXCEPT !.dim_str = _get_dim_str(v), !.data_str = data]
         IN [v |-> w, r |-> Text(DefText(w))]

get_pointer_decl(v) ==
    <<v.type, " ", "*">> \o NameIndex(v) \o <<" ">> \o v.alignment \o <<";", "\n">>

----------------------------------------------------------------------------
(* TreeNode and Edge (nncg/traverse/tree.py): an ordered mapping from edge *)
(* name to edge; re-adding a name replaces the edge and keeps its place.   *)

Edge(name, target, n_type) == [name |-> name, n_type |-> n_type, target |-> target]

HasEdge(edges, name) == \E k \in 1..Len(edges) : edges[k].name = name

add_edge(edges, name, target, n_type) ==
    IF HasEdge(edges, name)
    THEN [k \in 1..Len(edges) |->
            IF edges[k].name = name THEN Edge(name, target, n_type) ELSE edges[k]]
    ELSE Append(edges, Edge(name, target, n_type))

\* get_node: the target of the edge with this name (the caller has checked it exists).
get_node(edges, name) ==
    edges[CHOOSE k \in 1..Len(edges) : edges[k].name = name].target

RECURSIVE get_node_by_type(_, _)
\* get_node_by_type: the targets of the edges of this kind, in attachment order.
get_node_by_type(edges, n_type) ==
    IF edges = <<>> THEN <<>>
    ELSE (IF Head(edges).n_type = n_type THEN <<Head(edges).target>> ELSE <<>>)
           \o get_node_by_type(Tail(edges), n_type)

----------------------------------------------------------------------------
(* The node instances.  A node is named by its identity; two nodes are     *)
(* equal (==) only when they are the same instance.                        *)

\* Constant nodes: c0 and c0b are two instances wrapping the same value.
ConstNodes == {"c0", "c0b", "c1", "k1"}
\* The other nodes: "x" is the Variable, "expr" the Expression under test, "r" and
\* "e1" Expressions of the searched graph whose snippets have no placeholders.

Cls(n) ==
    IF n \in ConstNodes THEN "Constant"
    ELSE IF n = "x" THEN "Variable"
    ELSE "Expression"

ConstValue(n) == CASE n = "c0" -> 0 [] n = "c0b" -> 0 [] n = "c1" -> 1 [] n = "k1" -> 1

Lit(s) == [ph |-> FALSE, s |-> s]
Ph(s) == [ph |-> TRUE, s |-> s]

Snippet(n) ==
    IF n = "r" THEN <<Lit("r")>>
    ELSE IF n = "e1" THEN <<Lit("1")>>
    ELSE expr.snippet

EdgesOf(n) ==
    IF n = "expr" THEN expr.edges
    ELSE IF n \in DOMAIN graph THEN graph[n]
    ELSE <<>>

Constant__str__(n) == IntStr(ConstValue(n))

RECURSIVE Format(_, _, _)
\* snippet.format(**edges), given the rendering of each node: the first
\* placeholder without an edge of its name raises KeyError; an edge whose name
\* is no placeholder is not looked at.
Format(snippet, edges, str) ==
    IF snippet = <<>> THEN Text(<<>>)
    ELSE LET item == Head(snippet)
             rest == Format(Tail(snippet), edges, str)
         IN IF ~item.ph
            THEN IF rest.kind = "text" THEN Text(<<item.s>> \o rest.text) ELSE rest
            ELSE IF ~HasEdge(edges, <<item.s>>) THEN Raise("KeyError")
            ELSE LET child == str[get_node(edges, <<item.s>>)]
                 IN IF child.kind # "text" THEN child
                    ELSE IF rest.kind = "text" THEN Text(child.text \o rest.text)
                    ELSE rest

\* The rendering of the leaf nodes (constants and the variable).
LeafStr ==
    [n \in ConstNodes \cup {"x"} |->
        IF n = "x" THEN Text(Variable__str__(var)) ELSE Text(Constant__str__(n))]

Expression__init__(snippet, kwargs) ==
    LET RECURSIVE Bind(_, _)
        Bind(edges, kw) ==
            IF kw = <<>> THEN edges
            ELSE Bind(add_edge(edges, <<Head(kw)[1]>>, Head(kw)[2], "m_expr"), Tail(kw))
    IN [snippet |-> snippet, edges |-> Bind(<<>>, kwargs)]

\* Variant: a placeholder without an edge is skipped instead of raising.
Expression__str__lenient(n) ==
    LET bound(item) == ~item.ph \/ HasEdge(EdgesOf(n), <<item.s>>)
    IN Format(SelectSeq(Snippet(n), bound), EdgesOf(n), LeafStr)

Expression__str__(n) == Format(Snippet(n), EdgesOf(n), LeafStr)

\* str(node) for any node (Edge renders as its target).
Str(n) ==
    IF Cls(n) = "Expression" THEN Expression__str__(n) ELSE LeafStr[n]

----------------------------------------------------------------------------
(* IndexedVariable (expressions.py).                                       *)

IndexedVariable__init__(v, padding_to_offset) ==
    [edges |-> add_edge(<<>>, <<"var">>, v, "forward"),
     padding_to_offset |-> padding_to_offset]

RECURSIVE set_indices_from(_, _, _)
set_indices_from(edges, indices, idx) ==
    IF idx >= Len(indices) THEN edges
    ELSE set_indices_from(add_edge(edges, IntStr(idx), indices[idx + 1], "index"),
                          indices, idx + 1)

set_indices(o, indices) == [o EXCEPT !.edges = set_indices_from(o.edges, indices, 0)]

\* list.index(x): the first position (from 0) holding a node equal to x.
ListIndex(list, x) == (CHOOSE k \in 1..Len(list) :
                          list[k] = x /\ \A j \in 1..(k - 1) : list[j] # x) - 1

RECURSIVE Subscripts(_, _, _, _)
\* The loop of IndexedVariable.__str__ from position k of the index list n on.
Subscripts(n, k, pads, padding_to_offset) ==
    IF k > Len(n) THEN Text(<<>>)
    ELSE LET i == n[k]
             p == ListIndex(n, i)
             rest == Subscripts(n, k + 1, pads, padding_to_offset)
         IN IF padding_to_offset /\ p >= Len(pads) THEN Raise("IndexError")
            ELSE IF rest.kind # "text" THEN rest
            ELSE Text(<<"[">> \o Str(i).text
                      \o (IF padding_to_offset
                          THEN <<" ", "+", " ">> \o IntStr(pads[p + 1][1]) ELSE <<>>)
                      \o <<"]">> \o rest.text)

IndexedVariable__str__(o) ==
    LET s == Str(get_node(o.edges, <<"var">>))
        n == get_node_by_type(o.edges, "index")
        subs == Subscripts(n, 1, var.pads, o.padding_to_offset)
    IN IF subs.kind = "text" THEN Text(s.text \o subs.text) ELSE subs

----------------------------------------------------------------------------
(* The search actions (searchnode.py).  A result path is a list object: a  *)
(* copy holds its own elements, an alias is the live cur_path_stack.       *)

SearchNode__init__(cls, search_for) ==
    [cls |-> cls, search_for |-> search_for, result |-> <<>>, cur_path_stack |-> <<>>]

\* Variant: the list itself is stored, not a copy of it.
copy_alias(list) == [alias |-> TRUE, val |-> <<>>]

\* copy(list): a new list with the same elements.
copy(list) == [alias |-> FALSE, val |-> list]

\* Variant: the hook reports "prune".
_pre_action_prune(a, edge) ==
    [a |-> [a EXCEPT !.cur_path_stack = Append(@, edge.target)], r |-> FALSE]

_pre_action(a, edge) ==
    [a |-> [a EXCEPT !.cur_path_stack = Append(@, edge.target)], r |-> TRUE]

Pop(list) == SubSeq(list, 1, Len(list) - 1)

\* Variant: nodes are compared by their rendered text instead of by instance.
SearchNode_post_action_by_text(a, edge) ==
    LET b == IF Str(edge.target) = Str(a.search_for)
             THEN [a EXCEPT !.result = Append(@, copy(a.cur_path_stack))] ELSE a
    IN [b EXCEPT !.cur_path_stack = Pop(@)]

SearchNode_post_action(a, edge) ==
    LET b == IF edge.target = a.search_for
             THEN [a EXCEPT !.result = Append(@, copy(a.cur_path_stack))] ELSE a
    IN [b EXCEPT !.cur_path_stack = Pop(@)]

SearchNodeByType_post_action(a, edge) ==
    LET b == IF Cls(edge.target) = a.search_for
             THEN [a EXCEPT !.result = Append(@, copy(a.cur_path_stack))] ELSE a
    IN [b EXCEPT !.cur_path_stack = Pop(@)]

SearchNodeByName_post_action(a, edge) ==
    LET b == IF Str(edge.target).text = a.search_for
             THEN [a EXCEPT !.result = Append(@, copy(a.cur_path_stack))] ELSE a
    IN [b EXCEPT !.cur_path_stack = Pop(@)]

\* The method the action's class provides.
_post_action(a, edge) ==
    CASE a.cls = "SearchNode" -> SearchNode_post_action(a, edge)
      [] a.cls = "SearchNodeByType" -> SearchNodeByType_post_action(a, edge)
      [] a.cls = "SearchNodeByName" -> SearchNodeByName_post_action(a, edge)

\* The paths of the result list as a reader of action.result sees them.
ResultPaths(a) ==
    [k \in 1..Len(a.result) |->
        IF a.result[k].alias THEN a.cur_path_stack ELSE a.result[k].val]

----------------------------------------------------------------------------
(* Inputs.                                                                 *)

SeqsUpTo(S, n) == UNION {[1..k -> S] : k \in 0..n}

\* The sizes of the axes of the arrays: dim is None or the first k of these.
AxisSizes == <<2, 9, 4, 7>>
DimChoices == {None} \cup {Some(SubSeq(AxisSizes, 1, k)) : k \in 1..Min(MaxDims, Len(AxisSizes))}
\* alignment, index and init_data of the variables constructed
VarArgs == {<<0, 0, None>>, <<16, 12, Some(<<<<1, 2>>, <<3, 4>>>>)>>}
\* (leading, trailing) padding of one axis
PadPairs == {<<0, 0>>, <<1, 2>>, <<2, 0>>}
PadArgs == SeqsUpTo(PadPairs, MaxDims)
TempVals == {0, 7}

IdxNodes == {"c0", "c0b", "c1"}
IdxLists == SeqsUpTo(IdxNodes, MaxIdx)

SnippetItems == {Lit("+"), Ph("a"), Ph("b")}
Snippets == SeqsUpTo(SnippetItems, MaxSnippet)
EdgeNames == {"a", "b", "c"}
Children == {"c1", "x"}
Kwargs == {kw \in SeqsUpTo(EdgeNames \X Children, 2) :
              \A i, j \in 1..Len(kw) : i # j => kw[i][1] # kw[j][1]}

\* The nodes of the searched graphs, root first; an edge leads to a later node.
NodeOrder == <<"r", "e1", "k1", "x">>
GraphNodes == {NodeOrder[k] : k \in 1..Len(NodeOrder)}
After(p) == {NodeOrder[k] : k \in (p + 1)..Len(NodeOrder)}
EdgeLists(p) ==
    {[k \in 1..Len(ts) |-> Edge(IntStr(k - 1), ts[k], "forward")] :
        ts \in SeqsUpTo(After(p), MaxOut)}
Root == NodeOrder[1]

Searches ==
    {SearchNode__init__("SearchNode", n) : n \in {"e1", "k1", "x"}}
      \cup {SearchNode__init__("SearchNodeByType", c) : c \in {"Expression", "Constant"}}
      \cup {SearchNode__init__("SearchNodeByName", t) : t \in {<<"1">>, <<"q">>}}

DefaultVar == Variable__init__("float", "x", None, 0, 0, None)
NoIndexed == [edges |-> <<>>, padding_to_offset |-> FALSE]
NoExpr == [snippet |-> <<>>, edges |-> <<>>]
NoAction == SearchNode__init__("SearchNode", "x")

----------------------------------------------------------------------------
(* Initial states: one object under test, freshly constructed.             *)

InitVar ==
    /\ pc = "var"
    /\ \E dim \in DimChoices, a \in VarArgs :
          var = Variable__init__("float", "x", dim, a[1], a[2], a[3])
    /\ iv = NoIndexed /\ expr = NoExpr
    /\ op = "init" /\ ret = NoValue /\ argLen = 0 /\ defCalled = FALSE /\ lastIndices = <<>>
    /\ graph = <<>> /\ action = NoAction /\ frames = <<>> /\ hooks = <<>>

InitIdx ==
    /\ pc = "idx"
    /\ \E dim \in DimChoices : var = Variable__init__("float", "x", dim, 0, 0, None)
    /\ \E pto \in BOOLEAN : iv = IndexedVariable__init__("x", pto)
    /\ expr = NoExpr
    /\ op = "init" /\ ret = NoValue /\ argLen = 0 /\ defCalled = FALSE /\ lastIndices = <<>>
    /\ graph = <<>> /\ action = NoAction /\ frames = <<>> /\ hooks = <<>>

InitExpr ==
    /\ pc = "expr"
    /\ var = DefaultVar /\ iv = NoIndexed
    /\ \E sn \in Snippets, kw \in Kwargs : expr = Expression__init__(sn, kw)
    /\ op = "init" /\ ret = NoValue /\ argLen = 0 /\ defCalled = FALSE /\ lastIndices = <<>>
    /\ graph = <<>> /\ action = NoAction /\ frames = <<>> /\ hooks = <<>>

InitSearch ==
    /\ pc = "walk"
    /\ var = DefaultVar /\ iv = NoIndexed /\ expr = NoExpr
    /\ op = "init" /\ ret = NoValue /\ argLen = 0 /\ defCalled = FALSE /\ lastIndices = <<>>
    /\ \E a \in EdgeLists(1), b \in EdgeLists(2), c \in EdgeLists(3) :
          graph = [n \in GraphNodes |->
                      CASE n = NodeOrder[1] -> a [] n = NodeOrder[2] -> b
                        [] n = NodeOrder[3] -> c [] OTHER -> <<>>]
    /\ action \in Searches
    /\ frames = <<[node |-> Root, i |-> 1, phase |-> "pre"]>>
    /\ hooks = <<>>

Init == InitVar \/ InitIdx \/ InitExpr \/ InitSearch

----------------------------------------------------------------------------
(* Calls on the Variable.                                                  *)

GetDef(write_init_data) ==
    /\ pc = "var"
    /\ LET c == get_def(var, write_init_data) IN var' = c.v /\ ret' = c.r
    /\ op' = "get_def" /\ argLen' = 0 /\ defCalled' = TRUE
    /\ UNCHANGED <<pc, iv, expr, lastIndices, graph, action, frames, hooks>>

GetPointerDecl ==
    /\ pc = "var"
    /\ ret' = Text(get_pointer_decl(var)) /\ op' = "get_pointer_decl" /\ argLen' = 0
    /\ UNCHANGED <<pc, var, iv, expr, defCalled, lastIndices, graph, action, frames, hooks>>

GetCast ==
    /\ pc = "var"
    /\ ret' = Text(get_cast(var)) /\ op' = "get_cast" /\ argLen' = 0
    /\ UNCHANGED <<pc, var, iv, expr, defCalled, lastIndices, graph, action, frames, hooks>>

VarStr ==
    /\ pc = "var"
    /\ ret' = Text(Variable__str__(var)) /\ op' = "str" /\ argLen' = 0
    /\ UNCHANGED <<pc, var, iv, expr, defCalled, lastIndices, graph, action, frames, hooks>>

ChangePadding(pads) ==
    /\ pc \in {"var", "idx"}
    /\ LET c == change_padding(var, pads) IN var' = c.v /\ ret' = c.r
    /\ op' = "change_padding" /\ argLen' = Len(pads)
    /\ UNCHANGED <<pc, iv, expr, defCalled, lastIndices, graph, action, frames, hooks>>

\* var.temporal_value = value, as the loop unrolling of the callers does.
SetTemporal(value) ==
    /\ pc = "var"
    /\ var' = [var EXCEPT !.temporal_value = Some(value)]
    /\ ret' = NoValue /\ op' = "set_temporal" /\ argLen' = 0
    /\ UNCHANGED <<pc, iv, expr, defCalled, lastIndices, graph, action, frames, hooks>>

\* var.temporal_value = None
ClearTemporal ==
    /\ pc = "var" /\ var.temporal_value # None
    /\ var' = [var EXCEPT !.temporal_value = None]
    /\ ret' = NoValue /\ op' = "clear_temporal" /\ argLen' = 0
    /\ UNCHANGED <<pc, iv, expr, defCalled, lastIndices, graph, action, frames, hooks>>

NextVar ==
    \/ \E w \in BOOLEAN : GetDef(w)
    \/ GetPointerDecl
    \/ GetCast
    \/ VarStr
    \/ \E p \in PadArgs : ChangePadding(p)
    \/ \E t \in TempVals : SetTemporal(t)
    \/ ClearTemporal

----------------------------------------------------------------------------
(* Calls on the IndexedVariable.                                           *)

SetIndices(indices) ==
    /\ pc = "idx"
    /\ iv' = set_indices(iv, indices) /\ lastIndices' = indices
    /\ ret' = NoValue /\ op' = "set_indices" /\ argLen' = Len(indices)
    /\ UNCHANGED <<pc, var, expr, defCalled, graph, action, frames, hooks>>

IvStr ==
    /\ pc = "idx"
    /\ ret' = IndexedVariable__str__(iv) /\ op' = "str" /\ argLen' = 0
    /\ UNCHANGED <<pc, var, iv, expr, defCalled, lastIndices, graph, action, frames, hooks>>

NextIdx ==
    \/ \E l \in IdxLists : SetIndices(l)
    \/ IvStr
    \/ \E p \in PadArgs : pc = "idx" /\ ChangePadding(p)

----------------------------------------------------------------------------
(* Calls on the Expression.                                                *)

ExprAddEdge(name, target) ==
    /\ pc = "expr"
    /\ expr' = [expr EXCEPT !.edges = add_edge(@, <<name>>, target, "m_expr")]
    /\ ret' = NoValue /\ op' = "add_edge" /\ argLen' = 0
    /\ UNCHANGED <<pc, var, iv, defCalled, lastIndices, graph, action, frames, hooks>>

ExprStr ==
    /\ pc = "expr"
    /\ ret' = Expression__str__("expr") /\ op' = "str" /\ argLen' = 0
    /\ UNCHANGED <<pc, var, iv, expr, defCalled, lastIndices, graph, action, frames, hooks>>

NextExpr ==
    \/ \E n \in EdgeNames, t \in Children : ExprAddEdge(n, t)
    \/ ExprStr

----------------------------------------------------------------------------
(* TreeNode.traverse(action): for each edge in attachment order, the       *)
(* pre-order hook, the walk of the target when the hook says so, then the  *)
(* post-order hook.                                                        *)

Top == frames[Len(frames)]
CurEdge == graph[Top.node][Top.i]
SetTop(f) == [frames EXCEPT ![Len(frames)] = f]

PreStep ==
    /\ pc = "walk" /\ Top.phase = "pre" /\ Top.i <= Len(graph[Top.node])
    /\ LET c == _pre_action(action, CurEdge)
           waiting == SetTop([Top EXCEPT !.phase = "post"])
       IN /\ action' = c.a
          /\ frames' = IF c.r
                       THEN Append(waiting, [node |-> CurEdge.target, i |-> 1, phase |-> "pre"])
                       ELSE waiting
    /\ hooks' = Append(hooks, <<"pre", Top.node, Top.i>>)
    /\ op' = "pre_action" /\ argLen' = 0
    /\ UNCHANGED <<pc, var, iv, expr, ret, defCalled, lastIndices, graph>>

PostStep ==
    /\ pc = "walk" /\ Top.phase = "post"
    /\ action' = _post_action(action, CurEdge)
    /\ frames' = SetTop([Top EXCEPT !.i = @ + 1, !.phase = "pre"])
    /\ hooks' = Append(hooks, <<"post", Top.node, Top.i>>)
    /\ op' = "post_action" /\ argLen' = 0
    /\ UNCHANGED <<pc, var, iv, expr, ret, defCalled, lastIndices, graph>>

ReturnStep ==
    /\ pc = "walk" /\ Top.phase = "pre" /\ Top.i > Len(graph[Top.node])
    /\ frames' = Pop(frames)
    /\ pc' = IF Len(frames) = 1 THEN "done" ELSE "walk"
    /\ op' = "return" /\ argLen' = 0
    /\ UNCHANGED <<var, iv, expr, ret, defCalled, lastIndices, graph, action, hooks>>

NextSearch == PreStep \/ PostStep \/ ReturnStep

----------------------------------------------------------------------------

Next == NextVar \/ NextIdx \/ NextExpr \/ NextSearch

Spec == Init /\ [][Next]_vars
SpecVar == InitVar /\ [][NextVar]_vars
SpecIdx == InitIdx /\ [][NextIdx]_vars
SpecExpr == InitExpr /\ [][NextExpr]_vars
SpecSearch == InitSearch /\ [][NextSearch]_vars

----------------------------------------------------------------------------
(* Claims about the Variable, checked under SpecVar.                       *)

DimCount(v) == IF v.dim = None THEN 0 ELSE Len(v.dim[1])

\* C1: the first get_def call on a variable returns the declaration text and
\* sets decl_written; every later get_def call on it returns no text.
C1_DeclarationIdempotence ==
    [][op' = "get_def" =>
          IF ~defCalled
          THEN ret'.kind = "text" /\ ret'.text # <<>> /\ var'.decl_written
          ELSE ret' = NoValue]_vars

RECURSIVE BracketedSizes(_, _)
\* "[D_1 + lo_1 + hi_1]...[D_n + lo_n + hi_n]" for sizes D and padding pads.
BracketedSizes(D, pads) ==
    IF D = <<>> THEN <<>>
    ELSE <<"[">> \o IntStr(D[1] + pads[1][1] + pads[1][2]) \o <<"]">>
           \o BracketedSizes(Tail(D), Tail(pads))

Count(t, atom) == Cardinality({k \in 1..Len(t) : t[k] = atom})

C6_SizesDeclared ==
    (pc = "var" /\ op = "get_def" /\ ret.kind = "text" /\ var.dim # None)
       => /\ var.dim_str = BracketedSizes(var.dim[1], var.pads)
          /\ Count(ret.text, "[") = DimCount(var)
          /\ \E k \in 1..Len(ret.text) :
                SubSeq(ret.text, k, k + Len(var.dim_str) - 1) = var.dim_str

C6_NameKept ==
    op' = "change_padding" => Variable__str__(var') = Variable__str__(var)

\* C6: the declaration of an array variable holds one bracketed size per axis,
\* in axis order, the size of axis i being D_i + lo_i + hi_i for the padding
\* current at the call; a change of the padding leaves the rendered name as it was.
C6_ArraySizing == []C6_SizesDeclared /\ [][C6_NameKept]_vars

C6_Witness ==
    /\ pc = "var" /\ op = "get_def" /\ ret.kind = "text"
    /\ DimCount(var) = 2 /\ var.pads = <<<<1, 2>>, <<2, 0>>>>

C8_OverrideRendered ==
    (pc = "var" /\ op = "str")
       => ret = Text(IF var.temporal_value # None
                     THEN IntStr(var.temporal_value[1])
                     ELSE <<var.name, "_">> \o IntStr(var.index))

C8_Frame ==
    op' \in {"set_temporal", "clear_temporal"}
       => var' = [var EXCEPT !.temporal_value = var'.temporal_value]

\* C8: while temporal_value is set, str(variable) is the text of the override,
\* and without it the name with the index; setting and clearing the override
\* changes no other attribute of the variable.
C8_TransientOverride == []C8_OverrideRendered /\ [][C8_Frame]_vars

C8_Witness ==
    /\ pc = "var" /\ op = "str" /\ defCalled
    /\ var.temporal_value = Some(0) /\ ret = Text(<<"0">>)

C9_Arity ==
    pc = "var"
       => /\ Len(var.pads) = DimCount(var)
          /\ op = "change_padding"
                => ret = IF argLen = DimCount(var) THEN NoValue ELSE Raise("AssertionError")

C9_Rejected ==
    (op' = "change_padding" /\ argLen' # DimCount(var)) => var' = var

\* C9: the padding list of a variable always has one entry per dimension (none
\* for a scalar); change_padding with a list of another length fails and leaves
\* the variable as it was.
C9_PaddingArity == []C9_Arity /\ [][C9_Rejected]_vars

C9_Witness ==
    /\ pc = "var" /\ op = "change_padding" /\ ret.kind = "error"
    /\ DimCount(var) = 2 /\ var.pads = <<<<1, 2>>, <<0, 0>>>>

----------------------------------------------------------------------------
(* Claims about the IndexedVariable, checked under SpecIdx.                *)

RECURSIVE ExpectedSubscripts(_, _, _, _)
\* "[i_k + lo_k]" (or "[i_k]") for the indices from axis k on.
ExpectedSubscripts(indices, k, pads, offset) ==
    IF k > Len(indices) THEN <<>>
    ELSE <<"[">> \o LeafStr[indices[k]].text
           \o (IF offset THEN <<" ", "+", " ">> \o IntStr(pads[k][1]) ELSE <<>>)
           \o <<"]">> \o ExpectedSubscripts(indices, k + 1, pads, offset)

\* C5: with the index list attached by set_indices (one index per axis at
\* most), the subscript of axis i is the index of axis i, plus the leading
\* padding of axis i when padding_to_offset is set.
C5_OffsetCompensation ==
    (/\ pc = "idx" /\ op = "str"
     /\ get_node_by_type(iv.edges, "index") = lastIndices
     /\ Len(lastIndices) <= DimCount(var))
       => ret = Text(NameIndex(var)
                       \o ExpectedSubscripts(lastIndices, 1, var.pads, iv.padding_to_offset))

\* C10: the rendering has one subscript per element of the list of the most
\* recent set_indices call, in the order of that list.
C10_NewIndices ==
    (pc = "idx" /\ op = "str" /\ ret.kind = "text")
       => /\ Count(ret.text, "[") = Len(lastIndices)
          /\ ~iv.padding_to_offset
                => ret.text = NameIndex(var)
                                \o ExpectedSubscripts(lastIndices, 1, var.pads, FALSE)

----------------------------------------------------------------------------
(* Claims about the Expression, checked under SpecExpr.                    *)

Placeholders(o) == {o.snippet[k].s : k \in {j \in 1..Len(o.snippet) : o.snippet[j].ph}}
BoundNames(o) == {o.edges[k].name[1] : k \in 1..Len(o.edges)}

RECURSIVE Substituted(_, _)
\* The snippet with every placeholder replaced by the text of its edge's target.
Substituted(snippet, edges) ==
    IF snippet = <<>> THEN <<>>
    ELSE (IF Head(snippet).ph
          THEN LeafStr[get_node(edges, <<Head(snippet).s>>)].text
          ELSE <<Head(snippet).s>>) \o Substituted(Tail(snippet), edges)

----------------------------------------------------------------------------
(* Claims about the search actions, checked under SpecSearch.              *)

Matches(n) ==
    CASE action.cls = "SearchNode" -> n = action.search_for
      [] action.cls = "SearchNodeByType" -> Cls(n) = action.search_for
      [] action.cls = "SearchNodeByName" -> Str(n).text = action.search_for

RECURSIVE Occurrences(_, _)
\* The number of chains of edges that start with edge k or a later edge of
\* node n and end at a matching node.
Occurrences(n, k) ==
    IF k > Len(graph[n]) THEN 0
    ELSE LET t == graph[n][k].target
         IN (IF Matches(t) THEN 1 ELSE 0) + Occurrences(t, 1) + Occurrences(n, k + 1)

RECURSIVE PathsFrom(_, _, _)
\* The chains to matching nodes through edge k or a later edge of node n, each
\* as the nodes after the root, in the order in which the walk leaves them.
PathsFrom(n, k, prefix) ==
    IF k > Len(graph[n]) THEN <<>>
    ELSE LET t == graph[n][k].target
             p == Append(prefix, t)
         IN PathsFrom(t, 1, p) \o (IF Matches(t) THEN <<p>> ELSE <<>>)
              \o PathsFrom(n, k + 1, prefix)

IsMatchingPost(h) == h[1] = "post" /\ Matches(graph[h[2]][h[3]].target)
Last(path) == path[Len(path)]

IsChain(path) ==
    /\ path # <<>>
    /\ \E k \in 1..Len(graph[Root]) : graph[Root][k].target = path[1]
    /\ \A j \in 1..(Len(path) - 1) :
          \E k \in 1..Len(graph[path[j]]) : graph[path[j]][k].target = path[j + 1]

\* C3: every path of the result is the chain of nodes walked from the root
\* (left out) to the matching node (last); a recorded path stays as recorded
\* during the rest of the walk, and cur_path_stack is empty at the end.
C3_PathContent ==
    pc \in {"walk", "done"}
       => LET rp == ResultPaths(action)
              all == PathsFrom(Root, 1, <<>>)
          IN /\ Len(rp) <= Len(all) /\ rp = SubSeq(all, 1, Len(rp))
             /\ \A k \in 1..Len(rp) :
                   IsChain(rp[k]) /\ Matches(Last(rp[k]))
                     /\ \A j \in 1..Len(rp[k]) : rp[k][j] # Root
             /\ pc = "done" => action.cur_path_stack = <<>> /\ rp = all

C3_Witness ==
    /\ pc = "done" /\ Len(action.result) >= 2
    /\ Len(ResultPaths(action)[1]) = 3

RECURSIVE Chains(_)
RECURSIVE ChainsVia(_, _, _)
\* The number of chains of edges from the root to node n.
Chains(n) == IF n = Root THEN 1 ELSE ChainsVia(n, 1, 1)
\* ... of those whose last edge is edge k or later of node NodeOrder[m], or of a later node.
ChainsVia(n, m, k) ==
    IF m > Len(NodeOrder) THEN 0
    ELSE IF NodeOrder[m] = n \/ k > Len(graph[NodeOrder[m]]) THEN ChainsVia(n, m + 1, 1)
    ELSE (IF graph[NodeOrder[m]][k].target = n THEN Chains(NodeOrder[m]) ELSE 0)
           + ChainsVia(n, m, k + 1)

HookCount(kind, n, i) ==
    Cardinality({j \in 1..Len(hooks) : hooks[j] = <<kind, n, i>>})

\* On every visit of node n its edges are handed to the hook of this kind in
\* attachment order.
InAttachmentOrder(kind, n) ==
    LET OfNode(h) == h[1] = kind /\ h[2] = n
        seen == SelectSeq(hooks, OfNode)
    IN \A p \in 1..Len(seen) : seen[p][3] = ((p - 1) % Len(graph[n])) + 1

\* C4 as stated: the hook pair is invoked exactly once for every reachable edge.
C4_EveryEdgeOnce ==
    pc = "done"
       => \A n \in GraphNodes : \A i \in 1..Len(graph[n]) :
             Chains(n) > 0 => HookCount("pre", n, i) = 1 /\ HookCount("post", n, i) = 1

\* C4 amended: the hook pair is invoked for an edge once per chain of edges
\* from the root to the node the edge leaves, and on every visit of a node its
\* edges are taken in attachment order.
C4_EveryChainOnce ==
    pc = "done"
       => \A n \in GraphNodes :
             /\ \A i \in 1..Len(graph[n]) :
                   HookCount("pre", n, i) = Chains(n) /\ HookCount("post", n, i) = Chains(n)
             /\ InAttachmentOrder("pre", n) /\ InAttachmentOrder("post", n)

C4_Witness ==
    /\ pc = "done"
    /\ \E n \in GraphNodes : Chains(n) = 2 /\ Len(graph[n]) = 2 /\ HookCount("post", n, 2) = 2

====
